---- MODULE Spec2Model ----
(***************************************************************************)
(* Model of src/Clustering.py: hierarchical agglomerative clustering.      *)
(*                                                                         *)
(* Identifiers (cluster ids, point indices) are 0-based as in the Python   *)
(* code; TLA+ sequences are 1-based, so cluster id i is clusters[i + 1]    *)
(* and point index i is points[i + 1].                                     *)
(*                                                                         *)
(* Distances are fixed-point numbers in thousandths, rounded down:         *)
(* euclidean_distance returns floor(1000 * sqrt(sum of squares)).  Over    *)
(* the point universes below two distances are equal (or zero) in this     *)
(* encoding exactly when they are equal (or zero) as float32 values.       *)
(***************************************************************************)
EXTENDS Integers, Sequences, FiniteSets, TLC

VARIABLES
    pc,                \* position of the caller / of fit
    _n_clusters,       \* self._n_clusters
    _linkage,          \* self._linkage
    _n_items,          \* self._n_items      (None is NoneVal)
    _items,            \* self._items        (None is <<>>)
    _clusters,         \* self._clusters     (None is <<>>)
    _proximity_matrix, \* self._proximity_matrix (None is the empty table)
    _history,          \* self._history      (None is <<>>)
    p, q,              \* locals of fit
    new_cluster,       \* local of fit
    merge_prox,        \* observer: matrix entry of each selected pair, this run
    fresh,             \* observer: input and outcome of the engine's first fit
    sawOther,          \* observer: a fit on another input followed the first
    history,           \* compare_solution: the history argument
    answer,            \* compare_solution: the reference read from the file
    compare_result     \* compare_solution: the value returned ("none" before)

vars == <<pc, _n_clusters, _linkage, _n_items, _items, _clusters,
          _proximity_matrix, _history, p, q, new_cluster,
          merge_prox, fresh, sawOther, history, answer, compare_result>>

compare_vars == <<history, answer, compare_result>>

----------------------------------------------------------------------------
(* Bounds *)

\* longest input of a fit call on a new engine
MaxN == 4

\* longest input of a fit call when the engine is fitted repeatedly
MaxReuseN == 3

\* the points the inputs are drawn from
PointUniverse == {<<0, 0>>, <<0, 1>>, <<5, 5>>, <<5, 6>>, <<2, 0>>}

\* the points the inputs of repeated fits are drawn from
ReusePoints == {<<0, 0>>, <<0, 1>>}

SeqsUpTo(S, n) == UNION {[1..m -> S] : m \in 0..n}

Inputs == SeqsUpTo(PointUniverse, MaxN)

ReuseInputs == SeqsUpTo(ReusePoints, MaxReuseN)

\* target counts given to the constructor: below 1, in range, above N
KVals == (0 - 1)..(MaxN + 1)

LinkageNames == {"single", "complete", "average"}

----------------------------------------------------------------------------
(* Values *)

NoneVal == 0 - 1

\* the outcome of a call returning a pair or a table that raises instead
RaisedError == <<>>

\* the outcome of a call returning a number that raises ValueError instead
\* (distances and indexes are never negative)
Raised == 0 - 1

\* np.nan in the masked sub-matrix (distances are never negative)
NaN == 0 - 2

SeqToSet(s) == {s[i] : i \in 1..Len(s)}

RECURSIVE SumSeq(_)
SumSeq(s) == IF s = <<>> THEN 0 ELSE Head(s) + SumSeq(Tail(s))

SetMin(S) == CHOOSE x \in S : \A y \in S : x <= y

SetMax(S) == CHOOSE x \in S : \A y \in S : x >= y

----------------------------------------------------------------------------
(* MyCluster *)

MyCluster == [items |-> <<>>, used |-> TRUE]

append(c, item) == [c EXCEPT !.items = @ \o <<item>>]

extend(c, items) == [c EXCEPT !.items = @ \o items]

release(c) == [c EXCEPT !.used = FALSE, !.items = <<>>]

----------------------------------------------------------------------------
(* Distances and linkage functions *)

RECURSIVE ISqrtSearch(_, _, _)
ISqrtSearch(lo, hi, n) ==
    IF lo >= hi THEN lo
    ELSE LET mid == (lo + hi + 1) \div 2
         IN IF mid * mid <= n THEN ISqrtSearch(mid, hi, n)
            ELSE ISqrtSearch(lo, mid - 1, n)

SquaredNorm(a, b) == SumSeq([i \in 1..Len(a) |-> (a[i] - b[i]) * (a[i] - b[i])])

MaxSquaredNorm == SetMax({SquaredNorm(a, b) : a, b \in PointUniverse})

\* np.sqrt on 0..MaxSquaredNorm, in thousandths
SqrtTable == [s \in 0..MaxSquaredNorm |-> ISqrtSearch(0, 1000 * (s + 1), 1000000 * s)]

euclidean_distance(a, b) == SqrtTable[SquaredNorm(a, b)]

cdist(XA, XB) ==
    [i \in 1..Len(XA) |-> [j \in 1..Len(XB) |-> euclidean_distance(XA[i], XB[j])]]

\* points[clusters[c].items]
TakePoints(points, clusters, c) ==
    [i \in 1..Len(clusters[c + 1].items) |-> points[clusters[c + 1].items[i] + 1]]

Entries(dist) == {dist[i][j] : i \in DOMAIN dist, j \in UNION {DOMAIN dist[k] : k \in DOMAIN dist}}

\* variant: the largest distance is returned
single_linkage_max(points, clusters, a, b) ==
    LET proximity == cdist(TakePoints(points, clusters, a), TakePoints(points, clusters, b))
    IN IF Entries(proximity) = {} THEN Raised ELSE SetMax(Entries(proximity))

\* np.min / np.max raise ValueError on an array without elements
single_linkage(points, clusters, a, b) ==
    LET proximity == cdist(TakePoints(points, clusters, a), TakePoints(points, clusters, b))
    IN IF Entries(proximity) = {} THEN Raised ELSE SetMin(Entries(proximity))

complete_linkage(points, clusters, a, b) ==
    LET proximity == cdist(TakePoints(points, clusters, a), TakePoints(points, clusters, b))
    IN IF Entries(proximity) = {} THEN Raised ELSE SetMax(Entries(proximity))

linkage_choices == [single |-> "single_linkage", complete |-> "complete_linkage"]

_linkage_func(name, points, clusters, a, b) ==
    IF name = "single" THEN single_linkage(points, clusters, a, b)
    ELSE complete_linkage(points, clusters, a, b)

----------------------------------------------------------------------------
(* MyAgglomerativeClustering: the methods as functions of the fields *)

Ids(n) == 0..(n - 1)

zeros(n) == [ij \in Ids(n) \X Ids(n) |-> 0]

init_cluster(inputs) ==
    [n_items |-> Len(inputs),
     list    |-> [i \in 1..Len(inputs) |-> append(MyCluster, i - 1)],
     matrix  |-> zeros(2 * Len(inputs))]

\* variant: the distances are stored in the lower triangle, at [j, i]
init_proximity_lower(matrix, items, clusters) ==
    [ij \in DOMAIN matrix |->
        IF ij[1] < Len(clusters) /\ ij[2] < Len(clusters) /\ ij[1] > ij[2]
        THEN euclidean_distance(items[clusters[ij[1] + 1].items[1] + 1],
                                items[clusters[ij[2] + 1].items[1] + 1])
        ELSE matrix[ij]]

\* fit, lines 251-257: the upper triangle gets the distance of the sole members
init_proximity(matrix, items, clusters) ==
    [ij \in DOMAIN matrix |->
        IF ij[1] < Len(clusters) /\ ij[2] < Len(clusters) /\ ij[1] < ij[2]
        THEN euclidean_distance(items[clusters[ij[1] + 1].items[1] + 1],
                                items[clusters[ij[2] + 1].items[1] + 1])
        ELSE matrix[ij]]

RECURSIVE RemainingFrom(_, _)
RemainingFrom(clusters, i) ==
    IF i > Len(clusters) THEN <<>>
    ELSE (IF clusters[i].used THEN <<i - 1>> ELSE <<>>) \o RemainingFrom(clusters, i + 1)

_remaining_clusters(clusters) == RemainingFrom(clusters, 1)

\* variant: the last index of the smallest value
nanargmin_last(flat) ==
    LET real == {i \in 1..Len(flat) : flat[i] # NaN}
    IN IF real = {} THEN Raised
       ELSE SetMax({i \in real : \A j \in real : flat[i] <= flat[j]}) - 1

\* variant: the first index of the largest value (np.nanargmax)
nanargmax(flat) ==
    LET real == {i \in 1..Len(flat) : flat[i] # NaN}
    IN IF real = {} THEN Raised
       ELSE SetMin({i \in real : \A j \in real : flat[i] >= flat[j]}) - 1

\* np.nanargmin of the flattened array: the first index of the smallest
\* value that is not NaN; ValueError when there is none
nanargmin(flat) ==
    LET real == {i \in 1..Len(flat) : flat[i] # NaN}
    IN IF real = {} THEN Raised
       ELSE SetMin({i \in real : \A j \in real : flat[i] <= flat[j]}) - 1

\* variant: the indexes into the sub-matrix are returned as cluster ids
find_clusters_to_merge_unmapped(matrix, clusters) ==
    LET remaining_clusters == _remaining_clusters(clusters)
        m == Len(remaining_clusters)
        sub_p_matrix == [f \in 1..(m * m) |->
            LET v == matrix[<<remaining_clusters[((f - 1) \div m) + 1],
                              remaining_clusters[((f - 1) % m) + 1]>>]
            IN IF v = 0 THEN NaN ELSE v]
        arg == nanargmin(sub_p_matrix)
    IN IF arg = Raised THEN RaisedError
       ELSE <<arg \div m, arg % m>>

\* variant: the search runs over every cluster ever created, released or not
find_clusters_to_merge_all(matrix, clusters) ==
    LET remaining_clusters == [i \in 1..Len(clusters) |-> i - 1]
        m == Len(remaining_clusters)
        sub_p_matrix == [f \in 1..(m * m) |->
            LET v == matrix[<<remaining_clusters[((f - 1) \div m) + 1],
                              remaining_clusters[((f - 1) % m) + 1]>>]
            IN IF v = 0 THEN NaN ELSE v]
        arg == nanargmin(sub_p_matrix)
    IN IF arg = Raised THEN RaisedError
       ELSE <<remaining_clusters[(arg \div m) + 1], remaining_clusters[(arg % m) + 1]>>

\* variant: zero entries are not replaced by NaN
find_clusters_to_merge_nomask(matrix, clusters) ==
    LET remaining_clusters == _remaining_clusters(clusters)
        m == Len(remaining_clusters)
        sub_p_matrix == [f \in 1..(m * m) |->
            matrix[<<remaining_clusters[((f - 1) \div m) + 1],
                     remaining_clusters[((f - 1) % m) + 1]>>]]
        arg == nanargmin(sub_p_matrix)
    IN IF arg = Raised THEN RaisedError
       ELSE <<remaining_clusters[(arg \div m) + 1], remaining_clusters[(arg % m) + 1]>>

\* variant: when nanargmin raises, the first and last remaining clusters
\* are returned
find_clusters_to_merge_fallback(matrix, clusters) ==
    LET remaining_clusters == _remaining_clusters(clusters)
        m == Len(remaining_clusters)
        sub_p_matrix == [f \in 1..(m * m) |->
            LET v == matrix[<<remaining_clusters[((f - 1) \div m) + 1],
                              remaining_clusters[((f - 1) % m) + 1]>>]
            IN IF v = 0 THEN NaN ELSE v]
        arg == nanargmin(sub_p_matrix)
    IN IF arg = Raised
       THEN (IF m = 0 THEN RaisedError ELSE <<remaining_clusters[1], remaining_clusters[m]>>)
       ELSE <<remaining_clusters[(arg \div m) + 1], remaining_clusters[(arg % m) + 1]>>

find_clusters_to_merge(matrix, clusters) ==
    LET remaining_clusters == _remaining_clusters(clusters)
        m == Len(remaining_clusters)
        \* the sub-matrix, row-major, with 0 replaced by NaN
        sub_p_matrix == [f \in 1..(m * m) |->
            LET v == matrix[<<remaining_clusters[((f - 1) \div m) + 1],
                              remaining_clusters[((f - 1) % m) + 1]>>]
            IN IF v = 0 THEN NaN ELSE v]
        arg == nanargmin(sub_p_matrix)
    IN IF arg = Raised THEN RaisedError
       ELSE <<remaining_clusters[(arg \div m) + 1], remaining_clusters[(arg % m) + 1]>>

\* variant: the new cluster takes the members of the first cluster twice
merge_cluster_twice_first(clusters, a, b) ==
    LET new == extend(extend(MyCluster, clusters[a + 1].items), clusters[a + 1].items)
        appended == Append(clusters, new)
    IN [appended EXCEPT ![a + 1] = release(@), ![b + 1] = release(@)]

\* variant: the second cluster is not released
merge_cluster_keep_second(clusters, a, b) ==
    LET new == extend(extend(MyCluster, clusters[a + 1].items), clusters[b + 1].items)
        appended == Append(clusters, new)
    IN [appended EXCEPT ![a + 1] = release(@)]

\* variant: the members of the second cluster come first
merge_cluster_swapped(clusters, a, b) ==
    LET new == extend(extend(MyCluster, clusters[b + 1].items), clusters[a + 1].items)
        appended == Append(clusters, new)
    IN [appended EXCEPT ![a + 1] = release(@), ![b + 1] = release(@)]

merge_cluster(clusters, a, b) ==
    LET new == extend(extend(MyCluster, clusters[a + 1].items), clusters[b + 1].items)
        appended == Append(clusters, new)
    IN [appended EXCEPT ![a + 1] = release(@), ![b + 1] = release(@)]

\* variant: the first identifier is dropped (pop(0))
popped_remaining_first(clusters) ==
    SubSeq(_remaining_clusters(clusters), 2, Len(_remaining_clusters(clusters)))

\* variant: no identifier is dropped
popped_remaining_none(clusters) ==
    _remaining_clusters(clusters)

\* remaining_clusters after remaining_clusters.pop()
popped_remaining(clusters) ==
    SubSeq(_remaining_clusters(clusters), 1, Len(_remaining_clusters(clusters)) - 1)

\* update_proximity raises: pop from an empty list, a linkage of a cluster
\* without members, or a cell outside the table
update_proximity_raises(matrix, name, items, clusters, new) ==
    \/ _remaining_clusters(clusters) = <<>>
    \/ \E i \in SeqToSet(popped_remaining(clusters)) :
          \/ <<i, new>> \notin DOMAIN matrix
          \/ _linkage_func(name, items, clusters, i, new) = Raised

update_proximity(matrix, name, items, clusters, new) ==
    [ij \in DOMAIN matrix |->
        IF ij[2] = new /\ ij[1] \in SeqToSet(popped_remaining(clusters))
        THEN _linkage_func(name, items, clusters, ij[1], new)
        ELSE matrix[ij]]

\* variant: the loop also runs when the bound is reached
loop_condition_inclusive(clusters, n_items, n_clusters) ==
    Len(clusters) <= n_items * 2 - n_clusters

\* the condition of fit's while loop
loop_condition(clusters, n_items, n_clusters) ==
    Len(clusters) < n_items * 2 - n_clusters

----------------------------------------------------------------------------
(* Actions *)

Init ==
    /\ pc = "start"
    /\ _n_clusters = NoneVal
    /\ _linkage = "none"
    /\ _n_items = NoneVal
    /\ _items = <<>>
    /\ _clusters = <<>>
    /\ _proximity_matrix = zeros(0)
    /\ _history = <<>>
    /\ p = NoneVal
    /\ q = NoneVal
    /\ new_cluster = NoneVal
    /\ merge_prox = <<>>
    /\ fresh = <<>>
    /\ sawOther = FALSE
    /\ history = <<>>
    /\ answer = <<>>
    /\ compare_result = "none"

\* variant: an unknown linkage name is accepted
Construct_no_check(n_clusters, linkage) ==
    /\ pc = "start"
    /\ _n_clusters' = n_clusters
    /\ _linkage' = linkage
    /\ pc' = "constructed"
    /\ UNCHANGED <<_n_items, _items, _clusters, _proximity_matrix, _history,
                   p, q, new_cluster, merge_prox, fresh, sawOther>>
    /\ UNCHANGED compare_vars

\* MyAgglomerativeClustering(n_clusters, linkage): the fields are assigned
\* (lines 149-155), then an unknown linkage name raises KeyError at the
\* lookup (line 158) and the caller gets no instance
Construct(n_clusters, linkage) ==
    /\ pc = "start"
    /\ _n_clusters' = n_clusters
    /\ _linkage' = linkage
    /\ pc' = IF linkage \in DOMAIN linkage_choices THEN "constructed" ELSE "ctor_error"
    /\ UNCHANGED <<_n_items, _items, _clusters, _proximity_matrix, _history,
                   p, q, new_cluster, merge_prox, fresh, sawOther>>
    /\ UNCHANGED compare_vars

\* variant: the history of the previous fit is kept
Fit_keep_history(X) ==
    /\ pc \in {"constructed", "done", "error"}
    /\ LET init == init_cluster(X)
       IN /\ _n_items' = init.n_items
          /\ _items' = X
          /\ _clusters' = init.list
          /\ _proximity_matrix' = init_proximity(init.matrix, X, init.list)
    /\ _history' = _history
    /\ pc' = "loop"
    /\ merge_prox' = <<>>
    /\ sawOther' = (sawOther \/ (fresh # <<>> /\ fresh[1].X # X))
    /\ UNCHANGED <<_n_clusters, _linkage, p, q, new_cluster, fresh>>
    /\ UNCHANGED compare_vars

\* fit(X) up to the while loop: init_cluster, the empty history, the
\* initial proximity matrix
Fit(X) ==
    /\ pc \in {"constructed", "done", "error"}
    /\ LET init == init_cluster(X)
       IN /\ _n_items' = init.n_items
          /\ _items' = X
          /\ _clusters' = init.list
          /\ _proximity_matrix' = init_proximity(init.matrix, X, init.list)
    /\ _history' = <<>>
    /\ pc' = "loop"
    /\ merge_prox' = <<>>
    /\ sawOther' = (sawOther \/ (fresh # <<>> /\ fresh[1].X # X))
    /\ UNCHANGED <<_n_clusters, _linkage, p, q, new_cluster, fresh>>
    /\ UNCHANGED compare_vars

Outcome(status, recorded) ==
    IF fresh = <<>> THEN <<[X |-> _items, status |-> status, history |-> recorded]>>
    ELSE fresh

\* while condition true: p, q = self.find_clusters_to_merge()
FindClustersToMerge ==
    /\ pc = "loop"
    /\ loop_condition(_clusters, _n_items, _n_clusters)
    /\ LET pair == find_clusters_to_merge(_proximity_matrix, _clusters)
       IN IF pair = RaisedError
          THEN /\ pc' = "error"
               /\ fresh' = Outcome("error", _history)
               /\ UNCHANGED <<p, q, merge_prox>>
          ELSE /\ pc' = "merge"
               /\ p' = pair[1]
               /\ q' = pair[2]
               /\ merge_prox' = Append(merge_prox, _proximity_matrix[pair])
               /\ UNCHANGED fresh
    /\ UNCHANGED <<_n_clusters, _linkage, _n_items, _items, _clusters,
                   _proximity_matrix, _history, new_cluster, sawOther>>
    /\ UNCHANGED compare_vars

\* new_cluster = self.merge_cluster(p, q)
MergeCluster ==
    /\ pc = "merge"
    /\ _clusters' = merge_cluster(_clusters, p, q)
    /\ new_cluster' = Len(_clusters') - 1
    /\ pc' = "update"
    /\ UNCHANGED <<_n_clusters, _linkage, _n_items, _items, _proximity_matrix,
                   _history, p, q, merge_prox, fresh, sawOther>>
    /\ UNCHANGED compare_vars

\* self.update_proximity(new_cluster)
UpdateProximity ==
    /\ pc = "update"
    /\ IF update_proximity_raises(_proximity_matrix, _linkage, _items,
                                  _clusters, new_cluster)
       THEN /\ pc' = "error"
            /\ fresh' = Outcome("error", _history)
            /\ UNCHANGED _proximity_matrix
       ELSE /\ pc' = "record"
            /\ _proximity_matrix' = update_proximity(_proximity_matrix, _linkage,
                                                    _items, _clusters, new_cluster)
            /\ UNCHANGED fresh
    /\ UNCHANGED <<_n_clusters, _linkage, _n_items, _items, _clusters,
                   _history, p, q, new_cluster, merge_prox, sawOther>>
    /\ UNCHANGED compare_vars

\* self._history.extend([[p, q]])
Record ==
    /\ pc = "record"
    /\ _history' = _history \o <<<<p, q>>>>
    /\ pc' = "loop"
    /\ UNCHANGED <<_n_clusters, _linkage, _n_items, _items, _clusters,
                   _proximity_matrix, p, q, new_cluster, merge_prox, fresh, sawOther>>
    /\ UNCHANGED compare_vars

\* while condition false: return self._history
Return ==
    /\ pc = "loop"
    /\ ~loop_condition(_clusters, _n_items, _n_clusters)
    /\ pc' = "done"
    /\ fresh' = Outcome("done", _history)
    /\ UNCHANGED <<_n_clusters, _linkage, _n_items, _items, _clusters,
                   _proximity_matrix, _history, p, q, new_cluster, merge_prox, sawOther>>
    /\ UNCHANGED compare_vars

FitRun == FindClustersToMerge \/ MergeCluster \/ UpdateProximity \/ Record \/ Return

\* one fit call on each engine
Next ==
    \/ \E k \in KVals, l \in LinkageNames : Construct(k, l)
    \/ \E X \in Inputs : pc = "constructed" /\ Fit(X)
    \/ FindClustersToMerge
    \/ MergeCluster
    \/ UpdateProximity
    \/ Record
    \/ Return

Spec == Init /\ [][Next]_vars

\* any number of fit calls on the same engine
NextReuse ==
    \/ \E k \in KVals, l \in LinkageNames : Construct(k, l)
    \/ \E X \in ReuseInputs : Fit(X)
    \/ FindClustersToMerge
    \/ MergeCluster
    \/ UpdateProximity
    \/ Record
    \/ Return

SpecReuse == Init /\ [][NextReuse]_vars

----------------------------------------------------------------------------
(* compare_solution *)

\* longest history / answer compared
MaxCmpLen == 2

\* largest cluster id in a compared pair
MaxCmpId == 1

CmpPairs == (0..MaxCmpId) \X (0..MaxCmpId)

CmpSeqs == SeqsUpTo(CmpPairs, MaxCmpLen)

\* the for loop over zip(history, answer), from position i on
RECURSIVE CompareFrom(_, _, _)
CompareFrom(h, a, i) ==
    IF i > Len(h) THEN TRUE
    ELSE IF Len(h[i]) # Len(a[i]) THEN FALSE
    ELSE IF \E x \in SeqToSet(a[i]) : x \notin SeqToSet(h[i]) THEN FALSE
    ELSE CompareFrom(h, a, i + 1)

\* compare_solution once the answer is loaded from the file
compare_solution(h, a) ==
    IF Len(h) # Len(a) THEN FALSE ELSE CompareFrom(h, a, 1)

InitCompare ==
    /\ pc = "compare"
    /\ _n_clusters = NoneVal
    /\ _linkage = "none"
    /\ _n_items = NoneVal
    /\ _items = <<>>
    /\ _clusters = <<>>
    /\ _proximity_matrix = zeros(0)
    /\ _history = <<>>
    /\ p = NoneVal
    /\ q = NoneVal
    /\ new_cluster = NoneVal
    /\ merge_prox = <<>>
    /\ fresh = <<>>
    /\ sawOther = FALSE
    /\ history \in CmpSeqs
    /\ answer \in CmpSeqs
    /\ compare_result = "none"

CompareSolution ==
    /\ pc = "compare"
    /\ compare_result' = IF compare_solution(history, answer) THEN "True" ELSE "False"
    /\ pc' = "compared"
    /\ UNCHANGED <<_n_clusters, _linkage, _n_items, _items, _clusters,
                   _proximity_matrix, _history, p, q, new_cluster,
                   merge_prox, fresh, sawOther, history, answer>>

NextCompare == CompareSolution

SpecCompare == InitCompare /\ [][NextCompare]_vars

----------------------------------------------------------------------------
(* Properties *)

\* fit has been entered on the current input
InFit == pc \in {"loop", "merge", "update", "record", "done", "error"}

\* fit is between two iterations of its while loop, or has returned
AtLoopBoundary == pc \in {"loop", "done"}

Active == SeqToSet(_remaining_clusters(_clusters))

Entry(i, j) == _proximity_matrix[<<i, j>>]

\* the places (cluster id, position) where point index x is held by an
\* active cluster
Holders(x) ==
    UNION {{<<c, j>> : j \in {k \in DOMAIN _clusters[c + 1].items :
                                  _clusters[c + 1].items[k] = x}} : c \in Active}

\* all pairwise distances of the input points are distinct and nonzero
GeneralPosition(points) ==
    LET pairs == {ij \in (1..Len(points)) \X (1..Len(points)) : ij[1] < ij[2]}
    IN /\ \A ij \in pairs : euclidean_distance(points[ij[1]], points[ij[2]]) # 0
       /\ \A ij, kl \in pairs :
            ij # kl => euclidean_distance(points[ij[1]], points[ij[2]])
                       # euclidean_distance(points[kl[1]], points[kl[2]])

ValidTarget == 1 <= _n_clusters /\ _n_clusters <= _n_items

Scenario4 == <<<<0, 0>>, <<0, 1>>, <<5, 5>>, <<5, 6>>>>

\* C1: for every input of N >= 1 points, either linkage and every target
\* count k with 1 <= k <= N, fit never ends in an error and, when it
\* returns, the history holds exactly N - k pairs.
C1_FitTerminatesWithNMinusKPairs ==
    (InFit /\ _n_items >= 1 /\ 1 <= _n_clusters /\ _n_clusters <= _n_items)
        => /\ pc # "error"
           /\ pc = "done" => Len(_history) = _n_items - _n_clusters

\* C2: after initialization and after every merge, every point index
\* 0..N-1 is held exactly once by the active clusters, and the active
\* clusters hold nothing else.
C2_ActiveClustersPartitionPoints ==
    InFit =>
        /\ \A x \in Ids(_n_items) : Cardinality(Holders(x)) = 1
        /\ \A c \in Active : SeqToSet(_clusters[c + 1].items) \subseteq Ids(_n_items)

C2_Witness ==
    /\ pc = "done"
    /\ ValidTarget
    /\ Len(_history) >= 2
    /\ \E c \in Active : Len(_clusters[c + 1].items) >= 3

\* C3: at every loop boundary of fit the number of active clusters is
\* N - len(history), and the pair selected for a merge is two distinct
\* active clusters.
C3_EachMergeRemovesOneCluster ==
    /\ AtLoopBoundary => Cardinality(Active) = _n_items - Len(_history)
    /\ pc = "merge" => (p # q /\ p \in Active /\ q \in Active)

C3_Witness ==
    /\ pc = "loop"
    /\ ValidTarget
    /\ Len(_history) >= 2
    /\ Cardinality(Active) >= 2

\* C4: the pair returned by find_clusters_to_merge is a pair of active
\* clusters with a nonzero matrix entry, no pair of active clusters has a
\* smaller nonzero entry, and among the pairs with the same entry it is
\* the first in ascending (row, column) order.
C4_SelectsFirstMinimalPair ==
    pc = "merge" =>
        /\ p \in Active /\ q \in Active
        /\ Entry(p, q) # 0
        /\ \A i, j \in Active :
             Entry(i, j) # 0 =>
                \/ Entry(p, q) < Entry(i, j)
                \/ /\ Entry(p, q) = Entry(i, j)
                   /\ (p < i \/ (p = i /\ q <= j))

C4_Witness ==
    /\ pc = "merge"
    /\ ValidTarget
    /\ \E i, j \in Active : <<i, j>> # <<p, q>> /\ Entry(i, j) = Entry(p, q)
    /\ \E i, j \in Active : Entry(i, j) > Entry(p, q)

\* C5: a fit call on an engine that has already run fit (on the same or
\* another input, completed or failed) ends the same way and with the
\* same history as the engine's first fit on that input.
C5_RefitRepeatsFirstResult ==
    (pc \in {"done", "error"} /\ fresh # <<>> /\ fresh[1].X = _items)
        => (fresh[1].status = pc /\ fresh[1].history = _history)

C5_Witness ==
    /\ pc = "done"
    /\ sawOther
    /\ fresh # <<>>
    /\ fresh[1].X = _items
    /\ _history # <<>>

\* C6: under single linkage and for input points whose pairwise distances
\* are all distinct and nonzero, the matrix entries of the successively
\* selected pairs never decrease.
C6_SingleLinkageMonotone ==
    (InFit /\ _linkage = "single" /\ GeneralPosition(_items))
        => \A i \in 1..(Len(merge_prox) - 1) : merge_prox[i] <= merge_prox[i + 1]

C6_Witness ==
    /\ pc = "done"
    /\ _linkage = "single"
    /\ GeneralPosition(_items)
    /\ Len(merge_prox) >= 3
    /\ merge_prox[1] < merge_prox[3]

\* C7: for the points (0,0), (0,1), (5,5), (5,6), single linkage and
\* target 1, fit returns three merges: {0,1}, then {2,3}, then {4,5}.
C7_FourPointScenario ==
    (pc \in {"done", "error"} /\ _items = Scenario4 /\ _linkage = "single" /\ _n_clusters = 1)
        => /\ pc = "done"
           /\ Len(_history) = 3
           /\ {_history[1][1], _history[1][2]} = {0, 1}
           /\ {_history[2][1], _history[2][2]} = {2, 3}
           /\ {_history[3][1], _history[3][2]} = {4, 5}

C7_Witness ==
    /\ pc = "done"
    /\ _items = Scenario4
    /\ _linkage = "single"
    /\ _n_clusters = 1
    /\ Len(_history) = 3

\* C8: when the target count is at least the number of input points, fit
\* performs no merge, raises no error and returns an empty history, and
\* all N singleton clusters stay active.
C8_NoMergeWhenTargetAtLeastN ==
    (InFit /\ _n_clusters >= _n_items)
        => /\ pc \in {"loop", "done"}
           /\ _history = <<>>
           /\ Len(_clusters) = _n_items
           /\ \A c \in Ids(_n_items) :
                _clusters[c + 1].used /\ _clusters[c + 1].items = <<c>>

C8_Witness ==
    /\ pc = "done"
    /\ _n_items >= 3
    /\ _n_clusters = _n_items
    /\ _history = <<>>

\* C9: when the target count is outside [1, N], fit never returns a
\* history and no merge is ever performed: the error is signaled before
\* the first merge.
C9_InvalidTargetRejectedEagerly ==
    (InFit /\ (_n_clusters < 1 \/ _n_clusters > _n_items))
        => /\ pc # "done"
           /\ Len(_clusters) = _n_items
           /\ _history = <<>>

\* C10: whenever fit has failed, the engine's history is empty.
C10_NoHistoryOnFailure ==
    pc = "error" => _history = <<>>
\* C11: construction fails exactly when the linkage name is not one of
\* single, complete; fit only ever runs on an engine whose linkage is one
\* of the two.
C11_UnknownLinkageFailsAtConstruction ==
    /\ pc # "start" => (pc = "ctor_error" <=> _linkage \notin {"single", "complete"})
    /\ InFit => _linkage \in {"single", "complete"}
    /\ pc = "ctor_error" => (_n_items = NoneVal /\ _clusters = <<>> /\ _history = <<>>)

C11_Witness ==
    /\ pc = "ctor_error"
    /\ _linkage = "average"
\* C12: compare_solution returns true exactly when history and answer
\* have the same length and, at every position, hold the same unordered
\* pair of identifiers.
C12_CompareIsUnorderedPairEquality ==
    pc = "compared" =>
        (compare_result = "True"
            <=> /\ Len(history) = Len(answer)
                /\ \A i \in 1..Len(history) :
                      {history[i][1], history[i][2]} = {answer[i][1], answer[i][2]})
\* the four-point scenario, once its third pair is selected
Scenario4ThirdMerge ==
    /\ InFit
    /\ _items = Scenario4
    /\ _linkage = "single"
    /\ _n_clusters = 1
    /\ Len(merge_prox) >= 3

\* C13 as stated: in the four-point scenario the third merge happens at
\* proximity 5 * sqrt(2) = 7.071 (squared distance 50).
C13_ThirdMergeAtFiveRootTwo ==
    Scenario4ThirdMerge => merge_prox[3] = 7071

\* C13 amended: in the four-point scenario the third merge happens at
\* proximity sqrt(41) = 6.403 (squared distance 41), the distance of
\* (0,1) and (5,5), and it is the entry (4, 5) of the matrix.
C13_ThirdMergeAtRootFortyOne ==
    Scenario4ThirdMerge =>
        /\ merge_prox[3] = 6403
        /\ merge_prox[3] = SqrtTable[41]
        /\ Entry(4, 5) = merge_prox[3]

C13_Witness ==
    /\ Scenario4ThirdMerge
    /\ pc = "done"
    /\ _history[3] = <<4, 5>>
Members(c) == SeqToSet(_clusters[c + 1].items)

\* the distances of all pairs (member of i, member of j)
CrossDistances(i, j) ==
    {euclidean_distance(_items[x + 1], _items[y + 1]) : x \in Members(i), y \in Members(j)}

\* C14: at every loop boundary of fit, the matrix entry of every pair
\* i < j of active clusters is the smallest (single) or largest (complete)
\* distance between a member of i and a member of j.
C14_EntriesAreLinkageOfMembers ==
    AtLoopBoundary =>
        \A i, j \in Active :
            i < j => Entry(i, j) = IF _linkage = "single"
                                  THEN SetMin(CrossDistances(i, j))
                                  ELSE SetMax(CrossDistances(i, j))

C14_Witness ==
    /\ pc = "loop"
    /\ ValidTarget
    /\ _linkage = "complete"
    /\ \E i, j \in Active :
          /\ i < j
          /\ Cardinality(Members(i)) >= 2
          /\ Cardinality(Members(j)) >= 2
          /\ Entry(i, j) # 0
\* C15: a merge_cluster(p, q) step on two distinct active clusters appends
\* one active cluster holding p's members followed by q's members, returns
\* the registry size before the merge as its identifier, leaves p and q
\* inactive and empty, and changes no other cluster.
C15_MergeClusterEffect ==
    [][(pc = "merge" /\ p # q /\ _clusters[p + 1].used /\ _clusters[q + 1].used)
        => /\ Len(_clusters') = Len(_clusters) + 1
           /\ new_cluster' = Len(_clusters)
           /\ _clusters'[Len(_clusters) + 1] =
                 [items |-> _clusters[p + 1].items \o _clusters[q + 1].items,
                  used |-> TRUE]
           /\ _clusters'[p + 1] = [items |-> <<>>, used |-> FALSE]
           /\ _clusters'[q + 1] = [items |-> <<>>, used |-> FALSE]
           /\ \A c \in 1..Len(_clusters) :
                 c \notin {p + 1, q + 1} => _clusters'[c] = _clusters[c]]_vars

C15_Witness ==
    /\ pc = "update"
    /\ ValidTarget
    /\ Len(_clusters[new_cluster + 1].items) >= 3
    /\ _clusters[new_cluster + 1].items[1] > _clusters[new_cluster + 1].items[2]
    /\ \E c \in Active : c # new_cluster
\* the identifiers recorded in the history
Merged == UNION {{_history[i][1], _history[i][2]} : i \in DOMAIN _history}

C16_Inactive ==
    InFit =>
        /\ \A c \in 1..Len(_clusters) : ~_clusters[c].used => _clusters[c].items = <<>>
        /\ Merged \cap Active = {}
        /\ pc = "merge" => ({p, q} \subseteq Active /\ {p, q} \cap Merged = {})
        /\ \A i \in DOMAIN _history :
              /\ _history[i][1] # _history[i][2]
              /\ \A j \in DOMAIN _history :
                    i # j => {_history[i][1], _history[i][2]}
                             \cap {_history[j][1], _history[j][2]} = {}

C16_StaysInactive ==
    \A c \in 1..Len(_clusters) :
        (InFit /\ ~_clusters[c].used)
            => /\ Len(_clusters') >= c
               /\ ~_clusters'[c].used
               /\ _clusters'[c].items = <<>>

\* C16: a released cluster stays inactive and empty for the rest of the
\* fit run and is never selected again; every selected pair is two active
\* clusters, and no identifier occurs twice in the history.
C16_ReleasedNeverReused ==
    [] C16_Inactive /\ [][C16_StaysInactive]_vars

\* a pair is selected while a released cluster still has a smaller
\* nonzero entry in the matrix
C16_Witness ==
    /\ pc = "merge"
    /\ ValidTarget
    /\ _history # <<>>
    /\ \E i, j \in Ids(Len(_clusters)) :
          /\ ~({i, j} \subseteq Active)
          /\ Entry(i, j) # 0
          /\ Entry(i, j) < Entry(p, q)
\* C17: the selected pair never has a zero matrix entry (unset cells, the
\* diagonal, the lower triangle and clusters at distance 0 are skipped),
\* so every merge, recorded or under way, happened at a positive entry.
C17_NoMergeAtZero ==
    InFit =>
        /\ \A i \in DOMAIN merge_prox : merge_prox[i] > 0
        /\ Len(_history) <= Len(merge_prox)
        /\ pc = "merge" => (Entry(p, q) > 0 /\ merge_prox[Len(merge_prox)] = Entry(p, q))

\* a pair is selected although two active clusters are at distance 0
C17_Witness ==
    /\ pc = "merge"
    /\ ValidTarget
    /\ \E i, j \in Active : i < j /\ Entry(i, j) = 0
\* no pair of active clusters has a nonzero matrix entry
NoEligiblePair == \A i, j \in Active : Entry(i, j) = 0

\* C18: when the loop is entered with more active clusters than the
\* target and no pair of active clusters has a nonzero entry, the next
\* step of fit is the error: no pair is returned, nothing is merged or
\* recorded, and a failed fit never goes on to return.
C18_NoEligiblePairIsAnError ==
    [][/\ (pc = "loop" /\ Cardinality(Active) > _n_clusters /\ NoEligiblePair)
            => /\ pc' = "error"
               /\ UNCHANGED <<_clusters, _proximity_matrix, _history, p, q, new_cluster>>
       /\ pc = "error" => pc' = "error"]_vars

C18_Witness ==
    /\ pc = "error"
    /\ ValidTarget
    /\ Cardinality(Active) >= 2
    /\ Cardinality(Active) > _n_clusters
    /\ NoEligiblePair
    /\ _history # <<>>
LinkageOfMembers(i, j) ==
    IF _linkage = "single" THEN SetMin(CrossDistances(i, j))
    ELSE SetMax(CrossDistances(i, j))

\* C19: an update_proximity(new) step, right after merge_cluster returned
\* new, finds new as the last active identifier, meets only active
\* clusters with members, sets the cell (i, new) of every other active
\* cluster i to the linkage of i and new, and leaves every other cell of
\* the matrix as it was.
C19_UpdateProximityFrame ==
    [][pc = "update"
        => /\ _remaining_clusters(_clusters) # <<>>
           /\ _remaining_clusters(_clusters)[Len(_remaining_clusters(_clusters))] = new_cluster
           /\ \A c \in Active : _clusters[c + 1].items # <<>>
           /\ pc' = "record"
           /\ DOMAIN _proximity_matrix' = DOMAIN _proximity_matrix
           /\ \A ij \in DOMAIN _proximity_matrix :
                 IF ij[2] = new_cluster /\ ij[1] \in Active \ {new_cluster}
                 THEN _proximity_matrix'[ij] = LinkageOfMembers(ij[1], new_cluster)
                 ELSE _proximity_matrix'[ij] = _proximity_matrix[ij]]_vars

C19_Witness ==
    /\ pc = "record"
    /\ ValidTarget
    /\ _linkage = "complete"
    /\ Cardinality(Active) >= 3
    /\ \A i \in Active \ {new_cluster} : Entry(i, new_cluster) # 0
    /\ Entry(new_cluster, new_cluster) = 0
\* C20: in every state of a fit with 1 <= k <= N the matrix is the
\* 2N x 2N table with nonzero entries only above the diagonal, every
\* cluster identifier is at most 2N - 2, and every selected or recorded
\* pair (p, q) has p < q.
C20_UpperTriangularWithinTable ==
    (InFit /\ ValidTarget) =>
        /\ DOMAIN _proximity_matrix = Ids(2 * _n_items) \X Ids(2 * _n_items)
        /\ \A ij \in DOMAIN _proximity_matrix :
              _proximity_matrix[ij] # 0 => ij[1] < ij[2]
        /\ Len(_clusters) - 1 <= 2 * _n_items - 2
        /\ pc \in {"merge", "update", "record"} => (0 <= p /\ p < q /\ q <= 2 * _n_items - 2)
        /\ pc \in {"update", "record"} => new_cluster <= 2 * _n_items - 2
        /\ \A i \in DOMAIN _history :
              /\ 0 <= _history[i][1]
              /\ _history[i][1] < _history[i][2]
              /\ _history[i][2] <= 2 * _n_items - 2

C20_Witness ==
    /\ pc = "done"
    /\ _n_clusters = 1
    /\ _n_items >= 3
    /\ Len(_clusters) = 2 * _n_items - 1
    /\ _history[Len(_history)][2] = 2 * _n_items - 3
    /\ Entry(_history[Len(_history)][1], _history[Len(_history)][2]) # 0

====
